---- MODULE Spec2Model ----
(***************************************************************************)
(* Model of the RTMP server control plane (rtmpServer) and of its          *)
(* collaborators as far as the server's code drives them.                  *)
(*                                                                         *)
(* Processes: the actor (rtmpServer.run), the accept goroutine started by  *)
(* run, one worker per accepted connection (rtmpConn, opaque: it only      *)
(* calls onConnClose once), API callers (onAPIConnsList / onAPIConnsKick)  *)
(* and callers of close().  A send/receive pair on an unbuffered channel   *)
(* is one step; a select with several ready cases is a nondeterministic    *)
(* choice among them.                                                      *)
(***************************************************************************)
EXTENDS Integers, Sequences, FiniteSets, TLC

\* ------------------------------------------------------------------ bounds
MaxConns == 2   \* sockets the environment connects to the listener
NCallers == 2   \* concurrent API calls (each List or Kick)
NClosers == 2   \* concurrent calls of close()
MaxEvents == 4  \* events the environment starts in one run (see Events)
MaxFairEvents == 3  \* the same, in the runs checked for liveness
NMappings == 1  \* source -> destination mappings registered with regiserForward
NSessions == 2  \* sessions whose packets reach OnRTPForward concurrently
MaxPackets == 3 \* packets the sessions deliver to OnRTPForward in one run

Handles == 1..MaxConns
Callers == 1..NCallers
Closers == 1..NClosers

\* ------------------------------------------------------- newConnID (pure)
\* u %= 899999999 ; u += 100000000
IDModulus == 899999999
IDBase == 100000000

\* 4-byte results of rand.Read: 0, 899999999 (folds onto 0), 1, 2^32-1.
Draws == { <<0, 0, 0, 0>>, <<255, 232, 164, 53>>, <<1, 0, 0, 0>>,
           <<255, 255, 255, 255>> }

\* further results of rand.Read at the edges of the arithmetic: 899999998,
\* 900000000, 2^31-1, 2^31, 2 * 899999999, 2^32-2
EdgeDraws == { <<254, 232, 164, 53>>, <<0, 233, 164, 53>>, <<255, 255, 255, 127>>,
               <<0, 0, 0, 128>>, <<254, 209, 73, 107>>, <<254, 255, 255, 255>> }

\* binary.LittleEndian.Uint32(b) followed by u %= 899999999.  The 32-bit
\* value is split as t * 2^31 + low so that no intermediate exceeds 2^31-1.
Uint32Mod(b) ==
    LET low == b[1] + 256 * b[2] + 65536 * b[3] + 16777216 * (b[4] % 128)
        t == b[4] \div 128
        two31 == ((2147483647 % IDModulus) + 1) % IDModulus
    IN (t * two31 + (low % IDModulus)) % IDModulus

RECURSIVE FormatUint(_)
\* strconv.FormatUint(uint64(u), 10): the decimal digits, most significant first
FormatUint(n) ==
    IF n < 10 THEN <<n>> ELSE Append(FormatUint(n \div 10), n % 10)

\* the ID computed from one successful draw
DrawID(b) == FormatUint(Uint32Mod(b) + IDBase)

EmptyID == <<>>     \* the "" that newConnID returns with an error

\* variant: newConnID accepts a draw without looking at s.conns
AlreadyPresentNever(id, cs, ids) == FALSE

\* alreadyPresent closure of newConnID
AlreadyPresent(id, cs, ids) == \E c \in cs : ids[c] = id

\* Outcomes of newConnID: rand.Read fails (id "", err), or the loop returns
\* the ID of the first draw that is not already present.
NewConnID(cs, ids) ==
    { [id |-> EmptyID, err |-> TRUE] } \cup
    { [id |-> DrawID(b), err |-> FALSE] :
        b \in { d \in Draws : ~AlreadyPresent(DrawID(d), cs, ids) } }

\* IDs that API callers ask to kick
UnknownID == <<9, 9, 9, 9, 9, 9, 9, 9, 9>>
KickIDs == { DrawID(<<0, 0, 0, 0>>), UnknownID, EmptyID }

\* ------------------------------------------------------------ responses
NoRes == [kind |-> "none", items |-> {}]
Terminated == [kind |-> "terminated", items |-> {}]
NotFound == [kind |-> "notfound", items |-> {}]
Ack == [kind |-> "ok", items |-> {}]
Data(items) == [kind |-> "data", items |-> items]

NoOp == [op |-> "none", id |-> EmptyID]

\* data.Items after the loop over s.conns: a map keyed by c.ID(); an entry
\* written for a later connection with the same ID replaces the earlier one.
\* An item is <<ID, remote address>>; the remote address identifies the socket.
ListItems(cs, ids) ==
    LET keys == { ids[c] : c \in cs }
    IN { { <<k, f[k]>> : k \in keys } :
           f \in { g \in [keys -> cs] : \A k \in keys : ids[g[k]] = k } }

\* ---------------------------------------------------------------- state
VARIABLES
    ctxDone,     \* s.ctx has been cancelled
    lClose,      \* number of s.l.Close() calls; the listener is closed iff > 0
    wg,          \* s.wg counter
    conns,       \* s.conns
    connID,      \* c.ID() of each constructed worker
    pc,          \* position of run: start, select, listRes, kickRes, exit, done
    req,         \* caller whose request the actor is answering (0: none)
    res,         \* response the actor is about to send on req.Res
    apc,         \* accept goroutine: idle, accept, handoff, report, done
    nAccepted,   \* sockets returned by Accept so far (the last one is in hand)
    acceptErr,   \* error returned by Accept: none, closed, fail
    sockClosed,  \* sockets closed by the accept goroutine (conn.Close())
    wstate,      \* worker: none, running, notify, delivered, abandoned
    closeCalls,  \* number of c.close() calls per worker
    cpc,         \* API caller: idle, select, wait, done
    cop,         \* its request
    cres,        \* its return value
    cshut,       \* history: ctx was already cancelled when the call returned
    cseen,       \* history: insertions into s.conns before the actor took the request
    kpc,         \* close() caller: idle, wait, returned
    metricsSet,  \* arguments of the s.metrics.onRTMPServerSet calls so far
    errLogged,   \* the actor has received (and logged) the error of Accept
    budget,      \* number of events the environment starts in this run
    fclient,     \* f.client of each forwarder (0: nil, else a client)
    clients,     \* state of each gortsplib.Client created: new, publishing, failed
    fpc,         \* OnRTPForward call of each session: idle, range, check, new, start, write
    fpath,       \* session.path.Name() of the call
    fi,          \* index of the call in range forwarders
    sent,        \* packets the sessions have delivered to OnRTPForward
    nsess,       \* sessions that have delivered a packet
    panicked,    \* panic(err) has aborted the process
    opens,       \* history: StartPublishing calls made for each forwarder
    overlapped,  \* history: forwarders that two calls were inside at the same time
    writes,      \* history: state of the client at each WritePacketRTP
    werr,        \* history: WritePacketRTP calls that returned an error
    regd,        \* history: connections ever inserted into s.conns
    rm           \* history: number of removals of each connection from s.conns

vars == <<ctxDone, lClose, wg, conns, connID, pc, req, res, apc, nAccepted,
          acceptErr, sockClosed, wstate, closeCalls, cpc, cop, cres, cshut,
          cseen, kpc, metricsSet, errLogged, budget, regd, rm,
          fclient, clients, fpc, fpath, fi, sent, nsess, panicked, opens, overlapped,
          writes, werr>>

actorVars == <<pc, req, res>>
acceptVars == <<apc, nAccepted, acceptErr, sockClosed>>
workerVars == <<wstate, closeCalls>>
callerVars == <<cpc, cop, cres, cshut, cseen>>
registryVars == <<conns, connID, regd, rm>>
fwdVars == <<fclient, clients, fpc, fpath, fi, sent, nsess, panicked, opens, overlapped,
            writes, werr>>
serverVars == <<ctxDone, lClose, wg, conns, connID, pc, req, res, apc, nAccepted,
               acceptErr, sockClosed, wstate, closeCalls, cpc, cop, cres, cshut,
               cseen, kpc, metricsSet, errLogged, budget, regd, rm>>
envVars == <<budget, fwdVars>>

Mappings == 1..NMappings
Sessions == 1..NSessions

\* forwarders after setup: one forwarder per registered source, client nil;
\* no OnRTPForward call is running
FwdInit ==
    /\ fclient = [m \in Mappings |-> 0]
    /\ clients = <<>>
    /\ fpc = [p \in Sessions |-> "idle"]
    /\ fpath = [p \in Sessions |-> 0]
    /\ fi = [p \in Sessions |-> 0]
    /\ sent = 0
    /\ nsess = 0
    /\ panicked = FALSE
    /\ opens = [m \in Mappings |-> 0]
    /\ overlapped = {}
    /\ writes = {}
    /\ werr = 0
obsVars == <<metricsSet, errLogged>>

\* state after newRTMPServer: listener open, ctx live, wg.Add(1), go s.run()
InitWith(b) ==
    /\ budget = b
    /\ FwdInit
    /\ metricsSet = <<"server">>
    /\ errLogged = FALSE
    /\ ctxDone = FALSE
    /\ lClose = 0
    /\ wg = 1
    /\ conns = {}
    /\ connID = [c \in Handles |-> EmptyID]
    /\ pc = "start"
    /\ req = 0
    /\ res = NoRes
    /\ apc = "idle"
    /\ nAccepted = 0
    /\ acceptErr = "none"
    /\ sockClosed = {}
    /\ wstate = [c \in Handles |-> "none"]
    /\ closeCalls = [c \in Handles |-> 0]
    /\ cpc = [k \in Callers |-> "idle"]
    /\ cop = [k \in Callers |-> NoOp]
    /\ cres = [k \in Callers |-> NoRes]
    /\ cshut = [k \in Callers |-> FALSE]
    /\ cseen = [k \in Callers |-> 0]
    /\ kpc = [j \in Closers |-> "idle"]
    /\ regd = {}
    /\ rm = [c \in Handles |-> 0]

Init == InitWith(MaxEvents)

\* Events the environment has started: connections made to the listener, a
\* failure of Accept, terminations of workers, API calls and close() calls.
Events ==
    nAccepted + (IF acceptErr = "fail" THEN 1 ELSE 0)
    + Cardinality({ c \in Handles : wstate[c] \in {"notify", "delivered", "abandoned"} })
    + Cardinality({ k \in Callers : cpc[k] # "idle" })
    + Cardinality({ j \in Closers : kpc[j] # "idle" })

\* the environment may start one more event
MayStart == Events < budget

\* callers and closers are numbered in the order in which they arrive
NextCaller(k) == cpc[k] = "idle" /\ \A i \in Callers : i < k => cpc[i] # "idle"
NextCloser(j) == kpc[j] = "idle" /\ \A i \in Closers : i < j => kpc[i] # "idle"

\* removal bookkeeping for a step that takes the registry from conns to cs
Removed(cs) == [c \in Handles |-> IF c \in conns /\ c \notin cs THEN rm[c] + 1 ELSE rm[c]]

\* ------------------------------------------------------------ run: start
\* run(): s.wg.Add(1), make the channels, start the accept goroutine
RunStart ==
    /\ pc = "start"
    /\ pc' = "select"
    /\ wg' = wg + 1
    /\ apc' = "accept"
    /\ UNCHANGED <<envVars, obsVars>>
    /\ UNCHANGED <<ctxDone, lClose, req, res, nAccepted, acceptErr, sockClosed>>
    /\ UNCHANGED <<workerVars, callerVars, registryVars, kpc>>

\* ------------------------------------------------------ accept goroutine
\* s.l.Accept() returns a connection
Accept ==
    /\ apc = "accept"
    /\ lClose = 0
    /\ nAccepted < MaxConns
    /\ MayStart
    /\ nAccepted' = nAccepted + 1
    /\ apc' = "handoff"
    /\ UNCHANGED <<envVars, obsVars>>
    /\ UNCHANGED <<ctxDone, lClose, wg, acceptErr, sockClosed, actorVars>>
    /\ UNCHANGED <<workerVars, callerVars, registryVars, kpc>>

\* s.l.Accept() returns an error because the listener has been closed
AcceptClosed ==
    /\ apc = "accept"
    /\ lClose > 0
    /\ acceptErr' = "closed"
    /\ apc' = "report"
    /\ UNCHANGED <<envVars, obsVars>>
    /\ UNCHANGED <<ctxDone, lClose, wg, nAccepted, sockClosed, actorVars>>
    /\ UNCHANGED <<workerVars, callerVars, registryVars, kpc>>

\* s.l.Accept() returns an error on the open listener
AcceptFail ==
    /\ apc = "accept"
    /\ lClose = 0
    /\ MayStart
    /\ acceptErr' = "fail"
    /\ apc' = "report"
    /\ UNCHANGED <<envVars, obsVars>>
    /\ UNCHANGED <<ctxDone, lClose, wg, nAccepted, sockClosed, actorVars>>
    /\ UNCHANGED <<workerVars, callerVars, registryVars, kpc>>

\* select { case connNew <- conn: ... } taken together with the actor's
\* case nconn := <-connNew: newConnID (error ignored), newRTMPConn, insert
ConnNew ==
    /\ apc = "handoff"
    /\ pc = "select"
    /\ \E out \in NewConnID(conns, connID) :
         LET c == nAccepted IN
           /\ connID' = [connID EXCEPT ![c] = out.id]
           /\ wstate' = [wstate EXCEPT ![c] = "running"]
           /\ conns' = conns \cup {c}
           /\ regd' = regd \cup {c}
    /\ apc' = "accept"
    /\ UNCHANGED <<envVars, obsVars>>
    /\ UNCHANGED <<ctxDone, lClose, wg, nAccepted, acceptErr, sockClosed>>
    /\ UNCHANGED <<actorVars, closeCalls, callerVars, rm, kpc>>

\* variant: the accept goroutine drops the socket without closing it
HandoffDrop(n, closed) == closed

\* conn.Close() of the socket in hand
HandoffClose(n, closed) == closed \cup {n}

\* select { ... case <-s.ctx.Done(): conn.Close() }
HandoffCtxDone ==
    /\ apc = "handoff"
    /\ ctxDone
    /\ sockClosed' = HandoffClose(nAccepted, sockClosed)
    /\ apc' = "accept"
    /\ UNCHANGED <<envVars, obsVars>>
    /\ UNCHANGED <<ctxDone, lClose, wg, nAccepted, acceptErr, actorVars>>
    /\ UNCHANGED <<workerVars, callerVars, registryVars, kpc>>

\* variant: the actor logs the error of Accept and stays in its loop
AcceptErrContinue == "select"

\* where run goes after case err := <-acceptErr: break outer
AcceptErrBreak == "exit"

\* select { case acceptErr <- err: } with the actor's case err := <-acceptErr
\* (log, break outer); the goroutine returns (deferred s.wg.Done())
AcceptErrCase ==
    /\ apc = "report"
    /\ pc = "select"
    /\ pc' = AcceptErrBreak
    /\ errLogged' = TRUE
    /\ apc' = "done"
    /\ wg' = wg - 1
    /\ UNCHANGED <<envVars, metricsSet>>
    /\ UNCHANGED <<ctxDone, lClose, req, res, nAccepted, acceptErr, sockClosed>>
    /\ UNCHANGED <<workerVars, callerVars, registryVars, kpc>>

\* select { ... case <-s.ctx.Done(): } after Accept failed; the goroutine returns
ReportCtxDone ==
    /\ apc = "report"
    /\ ctxDone
    /\ apc' = "done"
    /\ wg' = wg - 1
    /\ UNCHANGED <<envVars, obsVars>>
    /\ UNCHANGED <<ctxDone, lClose, nAccepted, acceptErr, sockClosed, actorVars>>
    /\ UNCHANGED <<workerVars, callerVars, registryVars, kpc>>

\* ---------------------------------------------------------------- worker
\* the worker terminates (peer gone, protocol error, its context cancelled)
\* and is about to call parent.onConnClose(c)
WorkerTerminate(c) ==
    /\ wstate[c] = "running"
    /\ MayStart
    /\ wstate' = [wstate EXCEPT ![c] = "notify"]
    /\ UNCHANGED <<envVars, obsVars>>
    /\ UNCHANGED <<ctxDone, lClose, wg, actorVars, acceptVars, closeCalls>>
    /\ UNCHANGED <<callerVars, registryVars, kpc>>

\* variant: the actor empties the registry on a close notification
ConnCloseClear(c, cs) == {}

\* registry after the actor's case c := <-s.connClose
ConnCloseRegistry(c, cs) == IF c \notin cs THEN cs ELSE cs \ {c}

\* onConnClose: case s.connClose <- c, with the actor's case c := <-s.connClose
ConnClose(c) ==
    /\ wstate[c] = "notify"
    /\ pc = "select"
    /\ conns' = ConnCloseRegistry(c, conns)
    /\ rm' = Removed(conns')
    /\ wstate' = [wstate EXCEPT ![c] = "delivered"]
    /\ UNCHANGED <<envVars, obsVars>>
    /\ UNCHANGED <<ctxDone, lClose, wg, actorVars, acceptVars, closeCalls>>
    /\ UNCHANGED <<callerVars, connID, regd, kpc>>

\* variant: onConnClose sends without watching s.ctx
OnConnCloseNoCtx(c) ==
    /\ wstate[c] = "notify"
    /\ FALSE
    /\ UNCHANGED vars

\* onConnClose: case <-s.ctx.Done()
OnConnCloseCtxDone(c) ==
    /\ wstate[c] = "notify"
    /\ ctxDone
    /\ wstate' = [wstate EXCEPT ![c] = "abandoned"]
    /\ UNCHANGED <<envVars, obsVars>>
    /\ UNCHANGED <<ctxDone, lClose, wg, actorVars, acceptVars, closeCalls>>
    /\ UNCHANGED <<callerVars, registryVars, kpc>>

\* ------------------------------------------------------------ API facade
\* a caller enters onAPIConnsList
CallList(k) ==
    /\ NextCaller(k)
    /\ MayStart
    /\ cpc' = [cpc EXCEPT ![k] = "select"]
    /\ cop' = [cop EXCEPT ![k] = [op |-> "list", id |-> EmptyID]]
    /\ UNCHANGED <<envVars, obsVars>>
    /\ UNCHANGED <<ctxDone, lClose, wg, actorVars, acceptVars, workerVars>>
    /\ UNCHANGED <<cres, cshut, cseen, registryVars, kpc>>

\* a caller enters onAPIConnsKick with an ID
CallKick(k, id) ==
    /\ NextCaller(k)
    /\ MayStart
    /\ cpc' = [cpc EXCEPT ![k] = "select"]
    /\ cop' = [cop EXCEPT ![k] = [op |-> "kick", id |-> id]]
    /\ UNCHANGED <<envVars, obsVars>>
    /\ UNCHANGED <<ctxDone, lClose, wg, actorVars, acceptVars, workerVars>>
    /\ UNCHANGED <<cres, cshut, cseen, registryVars, kpc>>

\* case s.apiConnsList <- req, with the actor's case req := <-s.apiConnsList
\* up to the construction of data
APIConnsList(k) ==
    /\ cpc[k] = "select"
    /\ cop[k].op = "list"
    /\ pc = "select"
    /\ \E items \in ListItems(conns, connID) : res' = Data(items)
    /\ req' = k
    /\ pc' = "listRes"
    /\ cpc' = [cpc EXCEPT ![k] = "wait"]
    /\ cseen' = [cseen EXCEPT ![k] = Cardinality(regd)]
    /\ UNCHANGED <<envVars, obsVars>>
    /\ UNCHANGED <<ctxDone, lClose, wg, acceptVars, workerVars>>
    /\ UNCHANGED <<cop, cres, cshut, registryVars, kpc>>

\* variant: the caller prefers the cancellation of s.ctx to the response
ResReceivedUnlessDone(r, done) == IF done THEN Terminated ELSE r

\* what return <-req.Res hands to the caller of onAPIConnsList/onAPIConnsKick:
\* the value the actor sent, whatever the state of s.ctx
ResReceived(r, done) == r

\* req.Res <- rtmpServerAPIConnsListRes{Data: data}, received by return <-req.Res
ListRes ==
    /\ pc = "listRes"
    /\ cres' = [cres EXCEPT ![req] = ResReceived(res, ctxDone)]
    /\ cshut' = [cshut EXCEPT ![req] = ctxDone]
    /\ cpc' = [cpc EXCEPT ![req] = "done"]
    /\ pc' = "select"
    /\ req' = 0
    /\ res' = NoRes
    /\ UNCHANGED <<envVars, obsVars>>
    /\ UNCHANGED <<ctxDone, lClose, wg, acceptVars, workerVars>>
    /\ UNCHANGED <<cop, cseen, registryVars, kpc>>

\* connections the scan of the kick closure can stop at
KickFound(id, cs, ids) == { c \in cs : ids[c] = id }

\* variant: the kick closure forgets delete(s.conns, c)
KickRegistryKeep(c, cs) == cs

\* registry after the kick closure found c
KickRegistry(c, cs) == cs \ {c}

\* variant: the kick closure forgets c.close()
KickCloseNone(c, calls) == calls

\* close() calls made by the kick closure that found c
KickClose(c, calls) == [calls EXCEPT ![c] = @ + 1]

\* case s.apiConnsKick <- req, with the actor's case req := <-s.apiConnsKick
\* up to the computation of res: scan, delete, c.close()
APIConnsKick(k) ==
    /\ cpc[k] = "select"
    /\ cop[k].op = "kick"
    /\ pc = "select"
    /\ IF KickFound(cop[k].id, conns, connID) # {}
       THEN \E c \in KickFound(cop[k].id, conns, connID) :
              /\ conns' = KickRegistry(c, conns)
              /\ closeCalls' = KickClose(c, closeCalls)
              /\ res' = Ack
       ELSE /\ conns' = conns
            /\ closeCalls' = closeCalls
            /\ res' = NotFound
    /\ rm' = Removed(conns')
    /\ req' = k
    /\ pc' = "kickRes"
    /\ cpc' = [cpc EXCEPT ![k] = "wait"]
    /\ cseen' = [cseen EXCEPT ![k] = Cardinality(regd)]
    /\ UNCHANGED <<envVars, obsVars>>
    /\ UNCHANGED <<ctxDone, lClose, wg, acceptVars, wstate>>
    /\ UNCHANGED <<cop, cres, cshut, connID, regd, kpc>>

\* variant: the actor answers a Kick only when it found the connection
KickResAckOnly ==
    /\ pc = "kickRes"
    /\ res = Ack
    /\ cres' = [cres EXCEPT ![req] = ResReceived(res, ctxDone)]
    /\ cshut' = [cshut EXCEPT ![req] = ctxDone]
    /\ cpc' = [cpc EXCEPT ![req] = "done"]
    /\ pc' = "select"
    /\ req' = 0
    /\ res' = NoRes
    /\ UNCHANGED <<envVars, obsVars>>
    /\ UNCHANGED <<ctxDone, lClose, wg, acceptVars, workerVars>>
    /\ UNCHANGED <<cop, cseen, registryVars, kpc>>

\* req.Res <- rtmpServerAPIConnsKickRes{...}, received by return <-req.Res
KickRes ==
    /\ pc = "kickRes"
    /\ cres' = [cres EXCEPT ![req] = ResReceived(res, ctxDone)]
    /\ cshut' = [cshut EXCEPT ![req] = ctxDone]
    /\ cpc' = [cpc EXCEPT ![req] = "done"]
    /\ pc' = "select"
    /\ req' = 0
    /\ res' = NoRes
    /\ UNCHANGED <<envVars, obsVars>>
    /\ UNCHANGED <<ctxDone, lClose, wg, acceptVars, workerVars>>
    /\ UNCHANGED <<cop, cseen, registryVars, kpc>>

\* onAPIConnsList: case <-s.ctx.Done(): return Err("terminated")
ListTerminated(k) ==
    /\ cpc[k] = "select"
    /\ cop[k].op = "list"
    /\ ctxDone
    /\ cres' = [cres EXCEPT ![k] = Terminated]
    /\ cshut' = [cshut EXCEPT ![k] = ctxDone]
    /\ cpc' = [cpc EXCEPT ![k] = "done"]
    /\ UNCHANGED <<envVars, obsVars>>
    /\ UNCHANGED <<ctxDone, lClose, wg, actorVars, acceptVars, workerVars>>
    /\ UNCHANGED <<cop, cseen, registryVars, kpc>>

\* onAPIConnsKick: case <-s.ctx.Done(): return Err("terminated")
KickTerminated(k) ==
    /\ cpc[k] = "select"
    /\ cop[k].op = "kick"
    /\ ctxDone
    /\ cres' = [cres EXCEPT ![k] = Terminated]
    /\ cshut' = [cshut EXCEPT ![k] = ctxDone]
    /\ cpc' = [cpc EXCEPT ![k] = "done"]
    /\ UNCHANGED <<envVars, obsVars>>
    /\ UNCHANGED <<ctxDone, lClose, wg, actorVars, acceptVars, workerVars>>
    /\ UNCHANGED <<cop, cseen, registryVars, kpc>>

\* ------------------------------------------------------------- run: exit
\* the actor's case <-s.ctx.Done(): break outer
CtxDoneCase ==
    /\ pc = "select"
    /\ ctxDone
    /\ pc' = "exit"
    /\ UNCHANGED <<envVars, obsVars>>
    /\ UNCHANGED <<ctxDone, lClose, wg, req, res, acceptVars>>
    /\ UNCHANGED <<workerVars, callerVars, registryVars, kpc>>

\* s.l.Close() in run's exit sequence: one more call on the listener
RunExitListener(n) == n + 1

\* the argument of s.metrics.onRTMPServerSet in run's exit sequence: s
RunExitMetricsArg == "server"

\* variant: run closes every registered worker when it leaves
RunExitCloseAll(calls, cs) ==
    [c \in Handles |-> IF c \in cs THEN calls[c] + 1 ELSE calls[c]]

\* c.close() calls of run's exit sequence: none
RunExitClose(calls, cs) == calls

\* after the loop: s.ctxCancel(), s.l.Close(), s.metrics.onRTMPServerSet(s),
\* deferred s.wg.Done(); s.conns and the workers are left as they are
RunExit ==
    /\ pc = "exit"
    /\ ctxDone' = TRUE
    /\ lClose' = RunExitListener(lClose)
    /\ metricsSet' = Append(metricsSet, RunExitMetricsArg)
    /\ closeCalls' = RunExitClose(closeCalls, conns)
    /\ wg' = wg - 1
    /\ pc' = "done"
    /\ UNCHANGED <<envVars, errLogged>>
    /\ UNCHANGED <<req, res, acceptVars>>
    /\ UNCHANGED <<wstate, callerVars, registryVars, kpc>>

\* ---------------------------------------------------------------- close
\* variant: close() closes the listener as well
CloseListenerToo(n) == n + 1

\* close() does not touch s.l: closing the listener is left to run
CloseListener(n) == n

\* close(): s.ctxCancel(), then s.wg.Wait()
Close(j) ==
    /\ NextCloser(j)
    /\ MayStart
    /\ ctxDone' = TRUE
    /\ lClose' = CloseListener(lClose)
    /\ kpc' = [kpc EXCEPT ![j] = "wait"]
    /\ UNCHANGED <<envVars, obsVars>>
    /\ UNCHANGED <<wg, actorVars, acceptVars>>
    /\ UNCHANGED <<workerVars, callerVars, registryVars>>

\* variant: close() does not wait for the goroutines
WaitDoneNoJoin(n) == TRUE

\* s.wg.Wait() lets the caller through
WaitDone(n) == n = 0

\* close(): s.wg.Wait() returns, log "closed", return
CloseReturn(j) ==
    /\ kpc[j] = "wait"
    /\ WaitDone(wg)
    /\ kpc' = [kpc EXCEPT ![j] = "returned"]
    /\ UNCHANGED <<envVars, obsVars>>
    /\ UNCHANGED <<ctxDone, lClose, wg, actorVars, acceptVars>>
    /\ UNCHANGED <<workerVars, callerVars, registryVars>>

\* ------------------------------------------------------------------ spec
Next ==
    \/ RunStart
    \/ Accept
    \/ AcceptClosed
    \/ AcceptFail
    \/ ConnNew
    \/ HandoffCtxDone
    \/ AcceptErrCase
    \/ ReportCtxDone
    \/ \E c \in Handles : WorkerTerminate(c)
    \/ \E c \in Handles : ConnClose(c)
    \/ \E c \in Handles : OnConnCloseCtxDone(c)
    \/ \E k \in Callers : CallList(k)
    \/ \E k \in Callers, id \in KickIDs : CallKick(k, id)
    \/ \E k \in Callers : APIConnsList(k)
    \/ ListRes
    \/ \E k \in Callers : APIConnsKick(k)
    \/ KickRes
    \/ \E k \in Callers : ListTerminated(k)
    \/ \E k \in Callers : KickTerminated(k)
    \/ CtxDoneCase
    \/ RunExit
    \/ \E j \in Closers : Close(j)
    \/ \E j \in Closers : CloseReturn(j)

Spec == Init /\ [][Next]_vars

\* Every goroutine that can take a step of the program eventually takes one
\* (the Go scheduler is fair and a select picks among its ready cases at
\* random).  The environment (new connections, Accept failures, worker
\* terminations, API calls, close() calls) is under no obligation.
Fairness ==
    /\ WF_vars(RunStart)
    /\ WF_vars(AcceptClosed)
    /\ WF_vars(ConnNew)
    /\ WF_vars(HandoffCtxDone)
    /\ WF_vars(AcceptErrCase)
    /\ WF_vars(ReportCtxDone)
    /\ \A c \in Handles : WF_vars(ConnClose(c))
    /\ \A c \in Handles : WF_vars(OnConnCloseCtxDone(c))
    /\ \A k \in Callers : WF_vars(APIConnsList(k))
    /\ WF_vars(ListRes)
    /\ \A k \in Callers : WF_vars(APIConnsKick(k))
    /\ WF_vars(KickRes)
    /\ \A k \in Callers : WF_vars(ListTerminated(k))
    /\ \A k \in Callers : WF_vars(KickTerminated(k))
    /\ WF_vars(CtxDoneCase)
    /\ WF_vars(RunExit)
    /\ \A j \in Closers : WF_vars(CloseReturn(j))

FairInit == InitWith(MaxFairEvents)

FairSpec == FairInit /\ [][Next]_vars /\ Fairness

(***************************************************************************)
(* The forwarding hook (internal/core/rtsp_forward.go).  OnRTPForward is   *)
(* called by the sessions' packet handlers, concurrently and without any   *)
(* lock; each statement that reads or writes f.client is one step.         *)
(***************************************************************************)

\* regiserForward(source, destination): forwarder m forwards the path m;
\* path 0 is a path nobody registered
FwdSource(m) == m
Paths == 0..NMappings

BodyPcs == {"check", "new", "start", "write"}

\* forwarders whose body two calls are inside at the same time
Overlap(pcs, is) ==
    {m \in Mappings :
        \E p, q \in Sessions :
            /\ p # q
            /\ pcs[p] \in BodyPcs /\ is[p] = m
            /\ pcs[q] \in BodyPcs /\ is[q] = m}

\* a session's packet handler calls OnRTPForward(session, ctx); the sessions
\* are numbered in the order of their first packet
FwdCall(p, path) ==
    /\ ~panicked
    /\ fpc[p] = "idle"
    /\ sent < MaxPackets
    /\ p <= nsess + 1
    /\ fpc' = [fpc EXCEPT ![p] = "range"]
    /\ fpath' = [fpath EXCEPT ![p] = path]
    /\ fi' = [fi EXCEPT ![p] = 1]
    /\ sent' = sent + 1
    /\ nsess' = IF p > nsess THEN p ELSE nsess
    /\ UNCHANGED <<fclient, clients, panicked, opens, overlapped, writes, werr>>
    /\ UNCHANGED serverVars

\* for _, f := range forwarders, with the test f.source == session.path.Name()
FwdRange(p) ==
    /\ ~panicked
    /\ fpc[p] = "range"
    /\ IF fi[p] > NMappings
       THEN /\ fpc' = [fpc EXCEPT ![p] = "idle"]
            /\ fi' = [fi EXCEPT ![p] = 0]
            /\ fpath' = [fpath EXCEPT ![p] = 0]
       ELSE IF FwdSource(fi[p]) = fpath[p]
       THEN /\ fpc' = [fpc EXCEPT ![p] = "check"]
            /\ UNCHANGED <<fi, fpath>>
       ELSE /\ fi' = [fi EXCEPT ![p] = @ + 1]
            /\ UNCHANGED <<fpc, fpath>>
    /\ overlapped' = overlapped \cup Overlap(fpc', fi')
    /\ UNCHANGED <<fclient, clients, sent, nsess, panicked, opens, writes, werr>>
    /\ UNCHANGED serverVars

FwdAlwaysOpen(cl) == TRUE

\* f.client == nil
FwdNeedsOpen(cl) == cl = 0

\* if f.client == nil
FwdCheck(p) ==
    /\ ~panicked
    /\ fpc[p] = "check"
    /\ fpc' = [fpc EXCEPT ![p] =
                 IF FwdNeedsOpen(fclient[fi[p]]) THEN "new" ELSE "write"]
    /\ UNCHANGED <<fclient, clients, fpath, fi, sent, nsess, panicked, opens, overlapped,
                   writes, werr>>
    /\ UNCHANGED serverVars

\* f.client = &gortsplib.Client{}
FwdNewClient(p) ==
    /\ ~panicked
    /\ fpc[p] = "new"
    /\ clients' = Append(clients, "new")
    /\ fclient' = [fclient EXCEPT ![fi[p]] = Len(clients) + 1]
    /\ fpc' = [fpc EXCEPT ![p] = "start"]
    /\ UNCHANGED <<fpath, fi, sent, nsess, panicked, opens, overlapped, writes, werr>>
    /\ UNCHANGED serverVars

FwdOpenIgnore(err) == FALSE

\* if err != nil { panic(err) }
FwdOpenAbort(err) == err

\* err := f.client.StartPublishing(f.destination, tracks), on the client
\* f.client refers to at that moment
FwdStartPublishing(p, err) ==
    /\ ~panicked
    /\ fpc[p] = "start"
    /\ clients' = [clients EXCEPT ![fclient[fi[p]]] =
                     IF err THEN "failed" ELSE "publishing"]
    /\ opens' = [opens EXCEPT ![fi[p]] = @ + 1]
    /\ IF FwdOpenAbort(err)
       THEN /\ panicked' = TRUE
            /\ UNCHANGED fpc
       ELSE /\ fpc' = [fpc EXCEPT ![p] = "write"]
            /\ UNCHANGED panicked
    /\ UNCHANGED <<fclient, fpath, fi, sent, nsess, overlapped, writes, werr>>
    /\ UNCHANGED serverVars

\* f.client.WritePacketRTP(ctx.TrackID, ctx.Payload): the error it returns
\* is dropped, and the loop goes on
FwdWritePacketRTP(p, err) ==
    /\ ~panicked
    /\ fpc[p] = "write"
    /\ writes' = writes \cup
                   {[state |-> clients[fclient[fi[p]]], afterErr |-> werr > 0]}
    /\ werr' = IF err THEN werr + 1 ELSE werr
    /\ fi' = [fi EXCEPT ![p] = @ + 1]
    /\ fpc' = [fpc EXCEPT ![p] = "range"]
    /\ UNCHANGED <<fclient, clients, fpath, sent, nsess, panicked, opens, overlapped>>
    /\ UNCHANGED serverVars

FwdNext ==
    \/ \E p \in Sessions, path \in Paths : FwdCall(p, path)
    \/ \E p \in Sessions : FwdRange(p)
    \/ \E p \in Sessions : FwdCheck(p)
    \/ \E p \in Sessions : FwdNewClient(p)
    \/ \E p \in Sessions, err \in BOOLEAN : FwdStartPublishing(p, err)
    \/ \E p \in Sessions, err \in BOOLEAN : FwdWritePacketRTP(p, err)

\* the hook alone: the RTMP server takes no step
FwdSpec == InitWith(0) /\ [][FwdNext]_vars

FwdTypeOK ==
    /\ fclient \in [Mappings -> 0..Len(clients)]
    /\ \A c \in 1..Len(clients) : clients[c] \in {"new", "publishing", "failed"}
    /\ fpc \in [Sessions -> {"idle", "range"} \cup BodyPcs]
    /\ fpath \in [Sessions -> Paths]
    /\ fi \in [Sessions -> 0..(NMappings + 1)]
    /\ sent \in 0..MaxPackets
    /\ nsess \in 0..NSessions
    /\ panicked \in BOOLEAN
    /\ overlapped \subseteq Mappings
    /\ werr \in 0..MaxPackets

TypeOK ==
    /\ budget \in {MaxEvents, MaxFairEvents}
    /\ ctxDone \in BOOLEAN
    /\ lClose \in 0..1
    /\ wg \in 0..2
    /\ conns \subseteq regd
    /\ regd \subseteq Handles
    /\ pc \in {"start", "select", "listRes", "kickRes", "exit", "done"}
    /\ req \in 0..NCallers
    /\ apc \in {"idle", "accept", "handoff", "report", "done"}
    /\ nAccepted \in 0..MaxConns
    /\ acceptErr \in {"none", "closed", "fail"}
    /\ sockClosed \subseteq Handles
    /\ \A c \in Handles : wstate[c] \in {"none", "running", "notify", "delivered", "abandoned"}
    /\ \A k \in Callers : cpc[k] \in {"idle", "select", "wait", "done"}
    /\ \A j \in Closers : kpc[j] \in {"idle", "wait", "returned"}

\* ---------------------------------------------------------------- claims
IsKick(k) == cop[k].op = "kick"
IsList(k) == cop[k].op = "list"

\* the step in which the actor takes the Kick request of caller k
KickStep(k) == pc = "select" /\ pc' = "kickRes" /\ req' = k

\* C1: the response to a List request has exactly one item for every
\* connection that was registered and not yet closed or kicked, and nothing
\* else, as the Registry stands at the point where the actor took the request.
C1_ListExact ==
    /\ conns = { c \in regd : rm[c] = 0 }
    /\ pc = "listRes" => res.items = { <<connID[c], c>> : c \in conns }
    /\ \A k \in Callers :
         (cpc[k] = "done" /\ cres[k].kind = "data") =>
            /\ \A i \in cres[k].items : i[2] \in regd /\ connID[i[2]] = i[1]
            /\ \A i \in cres[k].items, j \in cres[k].items : i[1] = j[1] => i = j

\* C6: no two connections in the Registry carry the same ID.
C6_UniqueIDs ==
    \A c \in conns, d \in conns : c # d => connID[c] # connID[d]

\* C10: a connection is registered (and a worker constructed) only with an
\* ID that newConnID allocated, a string of 9 digits; when the randomness
\* source fails nothing is registered.
C10_NoEmptyID ==
    \A c \in Handles : (c \in regd \/ wstate[c] # "none") => Len(connID[c]) = 9

C7_KickRemovesOne ==
    [][ /\ \A k \in Callers :
             (KickStep(k) /\ KickFound(cop[k].id, conns, connID) # {}) =>
                \E c \in KickFound(cop[k].id, conns, connID) :
                    /\ conns' = conns \ {c}
                    /\ closeCalls' = [closeCalls EXCEPT ![c] = closeCalls[c] + 1]
                    /\ connID' = connID
                    /\ res' = Ack
        /\ pc = "kickRes" =>
             /\ conns' = conns
             /\ closeCalls' = closeCalls
             /\ pc' # pc => (pc' = "select" /\ cpc'[req] = "done" /\ cres'[req] = res)
      ]_vars

\* C7 witness: the actor has just handled a Kick for a registered ID.
C7_Witness ==
    pc = "kickRes" /\ res = Ack /\ \E c \in regd \ conns : closeCalls[c] = 1

\* C8: a Kick for an ID that no registered connection carries answers "not
\* found" and changes neither the Registry nor any worker; of two Kicks for the
\* same ID with no connection registered in between, at most one succeeds.
C8_KickNotFound ==
    /\ [][ \A k \in Callers :
             (KickStep(k) /\ KickFound(cop[k].id, conns, connID) = {}) =>
                (res' = NotFound /\ conns' = conns /\ closeCalls' = closeCalls)
         ]_vars
    /\ [](\A k1 \in Callers, k2 \in Callers :
            ( /\ k1 # k2
              /\ IsKick(k1) /\ IsKick(k2)
              /\ cop[k1].id = cop[k2].id
              /\ cpc[k1] = "done" /\ cpc[k2] = "done"
              /\ cseen[k1] = cseen[k2] ) => ~(cres[k1] = Ack /\ cres[k2] = Ack))

\* C5 as stated: a call that returns once ctx has been cancelled returns
\* "terminated".
C5_TerminatedOnceShutdown ==
    \A k \in Callers : (cpc[k] = "done" /\ cshut[k]) => cres[k] = Terminated

\* C5 amended: a call returns "terminated" exactly when its own select takes
\* the ctx.Done() case, which needs ctx cancelled and the request not yet
\* taken by the actor (always the case once run has left its loop); a call
\* whose request the actor has taken returns what the actor sends (data, Ack
\* or "not found"), also when ctx is cancelled before the response arrives.
C5_TerminatedIffNotReceived ==
    [][ \A k \in Callers :
          (cpc[k] # "done" /\ cpc'[k] = "done") =>
             IF cpc[k] = "wait"
             THEN cres'[k] = res /\ res.kind \in {"data", "ok", "notfound"}
             ELSE ctxDone /\ cres'[k] = Terminated
      ]_vars

\* C5 witness: a call returned the actor's response although ctx had been
\* cancelled before the response was delivered.
C5_Witness ==
    \E k \in Callers : cpc[k] = "done" /\ cshut[k] /\ cres[k] # Terminated

\* C3: every close() that is waiting returns; when it has returned, run and
\* the accept goroutine have returned and the listener is closed; from then on
\* Accept returns no connection and the Registry is neither read nor written.
C3_ShutdownDrains ==
    /\ \A j \in Closers : (kpc[j] = "wait") ~> (kpc[j] = "returned")
    /\ [](\A j \in Closers :
            kpc[j] = "returned" => (pc = "done" /\ apc = "done" /\ lClose > 0 /\ wg = 0))
    /\ [][ (\E j \in Closers : kpc[j] = "returned") =>
             (pc' = "done" /\ UNCHANGED <<conns, connID, regd, nAccepted>>) ]_vars

\* C3 witness: close() has returned on a server that had registered a connection.
C3_Witness ==
    \E j \in Closers : kpc[j] = "returned" /\ regd # {}

\* C4: every API call that has been issued returns, with a response of the
\* actor or with "terminated"; a call that returns after run has returned
\* returns "terminated".
C4_NoAdminCallHangs ==
    /\ \A k \in Callers : (cpc[k] \in {"select", "wait"}) ~> (cpc[k] = "done")
    /\ [](\A k \in Callers :
            cpc[k] = "done" =>
               \/ cres[k] = Terminated
               \/ IsList(k) /\ cres[k].kind = "data"
               \/ IsKick(k) /\ cres[k] \in {Ack, NotFound})
    /\ [][ \A k \in Callers :
             (pc = "done" /\ cpc[k] # "done" /\ cpc'[k] = "done") => cres'[k] = Terminated
         ]_vars

\* C4 witness: a Kick was answered by the actor and another call, pending at
\* shutdown, returned "terminated".
C4_Witness ==
    \E k1 \in Callers, k2 \in Callers :
        /\ cpc[k1] = "done" /\ cres[k1] = NotFound
        /\ cpc[k2] = "done" /\ cres[k2] = Terminated

\* C9: when close() is called twice concurrently both calls return, the
\* WaitGroup counter never goes negative (the only panic of this code), and
\* the listener is closed once, by run's exit sequence only.
C9_CloseTwice ==
    /\ (\A j \in Closers : kpc[j] # "idle") ~> (\A j \in Closers : kpc[j] = "returned")
    /\ [](wg >= 0 /\ lClose <= 1)
    /\ []((\E j \in Closers : kpc[j] = "returned") => lClose = 1)
    /\ [][ lClose' # lClose => (pc = "exit" /\ pc' = "done") ]_vars

\* C9 witness: both close() calls have returned.
C9_Witness ==
    \A j \in Closers : kpc[j] = "returned"

\* C11 as stated: the metrics sink is called once at construction with the
\* server and once when run leaves with nil, so that it no longer refers to
\* the server once close() has returned.
C11_MetricsOnceEach ==
    /\ pc # "done" => metricsSet = <<"server">>
    /\ pc = "done" => metricsSet = <<"server", "nil">>
    /\ \A j \in Closers :
         kpc[j] = "returned" => metricsSet[Len(metricsSet)] = "nil"

\* an ID is a string of 9 decimal digits without a leading zero
IsNineDigitID(id) ==
    /\ Len(id) = 9
    /\ id[1] \in 1..9
    /\ \A i \in 1..Len(id) : id[i] \in 0..9

RECURSIVE ParseUint(_)
\* the number a decimal string denotes
ParseUint(id) ==
    IF Len(id) = 0 THEN 0
    ELSE 10 * ParseUint(SubSeq(id, 1, Len(id) - 1)) + id[Len(id)]

\* C12 as stated, for the IDs that newConnID returned without error: the IDs
\* allocated to the arrivals are pairwise distinct.
C12_AllArrivalsDistinct ==
    \A c \in regd, d \in regd :
        (c # d /\ IsNineDigitID(connID[c]) /\ IsNineDigitID(connID[d])) =>
            connID[c] # connID[d]

\* C12 amended: every draw gives a number in [100000000, 999999999] (so the
\* 32-bit sum does not wrap) whose decimal string has 9 digits; an ID that
\* newConnID returns without error differs from the ID of every connection
\* registered at that moment.  IDs of arrivals that are not registered at the
\* same time may be equal.
C12_IDFormat ==
    /\ \A b \in Draws \cup EdgeDraws :
            /\ Uint32Mod(b) \in 0..(IDModulus - 1)
            /\ Uint32Mod(b) + IDBase \in IDBase..(IDBase + IDModulus)
            /\ IsNineDigitID(DrawID(b))
            /\ ParseUint(DrawID(b)) = Uint32Mod(b) + IDBase
    /\ [](\A c \in regd :
            connID[c] # EmptyID =>
               ( /\ IsNineDigitID(connID[c])
                 /\ ParseUint(connID[c]) \in IDBase..(IDBase + IDModulus) ))
    /\ [][ \A c \in Handles :
             (c \notin regd /\ c \in regd' /\ connID'[c] # EmptyID) =>
                \A d \in conns : connID[d] # connID'[c] ]_vars

\* C12 witness: two connections registered at the same time, both with an
\* ID that newConnID returned without error.
C12_Witness ==
    \E c \in conns, d \in conns :
        c # d /\ IsNineDigitID(connID[c]) /\ IsNineDigitID(connID[d])

\* C13: an accepted socket is either registered by the actor or closed by
\* the accept goroutine (which happens only once ctx is cancelled), never
\* both; only the socket in hand is neither, and none is once the accept
\* goroutine has left its loop.
C13_SocketFate ==
    /\ regd \cap sockClosed = {}
    /\ regd \cup sockClosed \subseteq 1..nAccepted
    /\ \A n \in 1..nAccepted :
         n \in regd \/ n \in sockClosed \/ (apc = "handoff" /\ n = nAccepted)
    /\ apc \in {"report", "done"} => (regd \cup sockClosed) = 1..nAccepted
    /\ \A n \in sockClosed : wstate[n] = "none"
    /\ sockClosed # {} => ctxDone

\* C13 witness: the accept goroutine has returned after one socket was
\* registered and another one closed.
C13_Witness ==
    apc = "done" /\ regd # {} /\ sockClosed # {}

\* C14 as stated: the error of a failed Accept reaches the actor.
C14_ErrorReachesActor ==
    (acceptErr = "fail" /\ apc = "done") => errLogged

\* C14 amended: after a failed Accept the accept goroutine never accepts
\* again; the error reaches the actor unless ctx is cancelled first, in which
\* case it is dropped; either way run leaves its loop, cancels ctx and closes
\* the listener, and API calls return "terminated" from then on.  The error
\* of an Accept on the closed listener never reaches the actor and the
\* accept goroutine returns.
C14_AcceptFailureTerminal ==
    /\ (acceptErr = "fail") ~> (pc = "done" /\ apc = "done" /\ ctxDone /\ lClose = 1)
    /\ (acceptErr = "closed") ~> (apc = "done")
    /\ [][ acceptErr # "none" =>
             ( /\ acceptErr' = acceptErr
               /\ nAccepted' = nAccepted
               /\ apc' \in {"report", "done"} ) ]_vars
    /\ [](errLogged => (acceptErr = "fail" /\ pc \in {"exit", "done"}))
    /\ []((acceptErr = "fail" /\ apc = "done" /\ ~errLogged) => ctxDone)
    /\ [][ \A k \in Callers :
             (errLogged /\ pc = "done" /\ cpc[k] # "done" /\ cpc'[k] = "done") =>
                cres'[k] = Terminated ]_vars

\* C14 witness: Accept failed, ctx was cancelled before the actor took the
\* error, and run has returned.
C14_Witness ==
    acceptErr = "fail" /\ apc = "done" /\ ~errLogged /\ pc = "done"

\* C15: the step in which the actor takes the close notification of c
\* removes c from the Registry if it is there and changes nothing else.
C15_CloseNotificationFrame ==
    [][ \A c \in Handles :
          (wstate[c] = "notify" /\ wstate'[c] = "delivered") =>
             /\ conns' = conns \ {c}
             /\ c \notin conns => conns' = conns
             /\ connID' = connID
             /\ closeCalls' = closeCalls
             /\ pc' = pc
      ]_vars

\* C15 witness: the notification of a worker that Kick had removed was
\* taken while another connection was registered.
C15_Witness ==
    \E c \in Handles :
        wstate[c] = "delivered" /\ closeCalls[c] = 1 /\ conns # {}

\* C16: the steps in which run leaves its loop and returns call close() on
\* no worker and leave the Registry alone; close() is called on a worker
\* only in the step that handles a successful Kick for its ID.
C16_NoForcedClose ==
    [][ /\ (pc' # pc /\ pc' \in {"exit", "done"}) =>
             (conns' = conns /\ closeCalls' = closeCalls /\ wstate' = wstate)
        /\ \A c \in Handles :
             closeCalls'[c] # closeCalls[c] =>
                \E k \in Callers :
                    /\ KickStep(k)
                    /\ cop[k].id = connID[c]
                    /\ c \in conns
                    /\ res' = Ack
                    /\ closeCalls'[c] = closeCalls[c] + 1
      ]_vars

\* C16 witness: run has returned and a worker that nobody closed is still
\* running and registered.
C16_Witness ==
    pc = "done" /\ \E c \in conns : wstate[c] = "running" /\ closeCalls[c] = 0

\* C17: every onConnClose call returns: the actor takes the notification,
\* or ctx is cancelled; after run has returned it returns through ctx.
C17_OnConnCloseReturns ==
    /\ \A c \in Handles :
         (wstate[c] = "notify") ~> (wstate[c] \in {"delivered", "abandoned"})
    /\ [](\A c \in Handles : wstate[c] = "abandoned" => ctxDone)
    /\ [][ \A c \in Handles :
             (pc = "done" /\ wstate[c] = "notify" /\ wstate'[c] # "notify") =>
                wstate'[c] = "abandoned" ]_vars

\* C17 witness: an onConnClose call returned through ctx after run had returned.
C17_Witness ==
    \E c \in Handles : wstate[c] = "abandoned" /\ pc = "done"

\* C18: sequential calls for a mapping open its outbound connection at most
\* once: a mapping whose StartPublishing ran twice or more had two calls inside
\* its body at the same time (and two concurrent first packets do reach that)
C18_OpenOnceIfSequential ==
    \A m \in Mappings : opens[m] >= 2 => m \in overlapped

\* C18 witness: StartPublishing has run twice for one mapping, by two calls
\* that were in its body together, and both opens succeeded
C18_Witness ==
    \E m \in Mappings : opens[m] >= 2 /\ m \in overlapped /\ ~panicked

\* C19: every WritePacketRTP is made on a client whose StartPublishing has
\* completed successfully
C19_WriteAfterOpen ==
    \A w \in writes : w.state = "publishing"

\* C20 as stated: any relay error, of the open or of the write, aborts the
\* process
C20_AnyFailureAborts ==
    werr > 0 => panicked

\* C20: a failed open aborts the process and nothing is relayed afterwards;
\* the error of a packet write is dropped, the process goes on
C20_OpenFailureAborts ==
    /\ []((\E c \in 1..Len(clients) : clients[c] = "failed") => panicked)
    /\ [][~panicked]_vars
    /\ [][werr' # werr => ~panicked']_vars

\* C20 witness: a write error was dropped and a later packet written, then
\* a failed open aborted the process
C20_Witness ==
    /\ panicked
    /\ \E c \in 1..Len(clients) : clients[c] = "failed"
    /\ werr > 0
    /\ \E w \in writes : w.afterErr

====
